---- MODULE Spec2Model ----
(***************************************************************************)
(* Model of the BambooHR employee client (src/employees.go): the field     *)
(* set and its Join, the Employee record and its decoding, and the four    *)
(* client operations GetEmployeeDirectory, GetEmployeeIDByEmail,           *)
(* GetEmployeeByEmail and GetEmployee.                                     *)
(*                                                                         *)
(* A Go string is a sequence of one-character strings, so lengths,         *)
(* concatenation, case-sensitive comparison and query escaping are         *)
(* computed rather than assumed.  A Go pointer to bool or int is a set:    *)
(* the empty set is nil, {v} points to v.                                  *)
(***************************************************************************)
EXTENDS Integers, Sequences, FiniteSets, TLC

VARIABLES
    baseURL,    \* c.BaseURL, immutable configuration of the client
    pc,         \* "idle" | "dir" | "emp" | "done": position of the current call
    op,         \* the public operation being executed
    email,      \* argument email of the by-email lookups
    id,         \* argument id of GetEmployee (direct or delegated)
    fields,     \* argument fields... of GetEmployee / GetEmployeeByEmail
    sent,       \* requests handed to c.makeRequest during the call, in order
    outcomes,   \* error returned by each completed c.makeRequest, in order
    newReqErr,  \* error returned by http.NewRequest during the call
    directory,  \* the slice GetEmployeeDirectory returned inside a lookup
    dest,       \* the destination value as c.makeRequest left it
    delegated,  \* calls GetEmployeeByEmail made to GetEmployee
    ret,        \* the value and the error returned to the caller
    ef,         \* receiver of EmployeeFields.Join
    sep,        \* separator of EmployeeFields.Join
    joined,     \* result of EmployeeFields.Join
    jpc,        \* "call" | "ret": position of the Join call
    body,       \* JSON object of an employee response
    decoded,    \* result of decoding body into a fresh Employee
    dpc         \* "body" | "decoded": position of the decoding

clientVars == <<baseURL, pc, op, email, id, fields, sent, outcomes, newReqErr,
                directory, dest, delegated, ret>>
joinVars == <<ef, sep, joined, jpc>>
decodeVars == <<body, decoded, dpc>>
vars == <<clientVars, joinVars, decodeVars>>

(***************************************************************************)
(* Bounds of the model.                                                    *)
(***************************************************************************)
MaxTokens == 3
MaxFields == 2
MaxDir == 2
MaxKeys == 2

(***************************************************************************)
(* Field tokens (const block).                                             *)
(***************************************************************************)
DisplayName ==
    <<"D", "i", "s", "p", "l", "a", "y", "N", "a", "m", "e">>

FirstName ==
    <<"F", "i", "r", "s", "t", "N", "a", "m", "e">>

LastName ==
    <<"L", "a", "s", "t", "N", "a", "m", "e">>

PreferredName ==
    <<"P", "r", "e", "f", "e", "r", "r", "e", "d", "N", "a", "m", "e">>

Gender ==
    <<"G", "e", "n", "d", "e", "r">>

JobTitle ==
    <<"J", "o", "b", "T", "i", "t", "l", "e">>

WorkPhone ==
    <<"W", "o", "r", "k", "P", "h", "o", "n", "e">>

MobilePhone ==
    <<"M", "o", "b", "i", "l", "e", "P", "h", "o", "n", "e">>

WorkEmail ==
    <<"W", "o", "r", "k", "E", "m", "a", "i", "l">>

Department ==
    <<"D", "e", "p", "a", "r", "t", "m", "e", "n", "t">>

Location ==
    <<"L", "o", "c", "a", "t", "i", "o", "n">>

Division ==
    <<"D", "i", "v", "i", "s", "i", "o", "n">>

LinkedIn ==
    <<"L", "i", "n", "k", "e", "d", "I", "n">>

WorkPhoneExtension ==
    <<"W", "o", "r", "k", "P", "h", "o", "n", "e", "E", "x", "t", "e", "n", "s", "i", "o", "n">>

PhotoUploaded ==
    <<"P", "h", "o", "t", "o", "U", "p", "l", "o", "a", "d", "e", "d">>

PhotoURL ==
    <<"P", "h", "o", "t", "o", "U", "R", "L">>

CanUploadPhoto ==
    <<"C", "a", "n", "U", "p", "l", "o", "a", "d", "P", "h", "o", "t", "o">>

HireDate ==
    <<"H", "i", "r", "e", "D", "a", "t", "e">>

ReportingTo ==
    <<"R", "e", "p", "o", "r", "t", "i", "n", "g", " ", "t", "o">>

SeqsUpTo(S, n) ==
    UNION {[1..k -> S] : k \in 0..n}

(***************************************************************************)
(* EmployeeFields.Join                                                     *)
(***************************************************************************)
\* the loop over ef[1:]: b.WriteString(sep); b.WriteString(string(s))
RECURSIVE JoinWriteRest(_, _, _)
JoinWriteRest(b, rest, s) ==
    IF rest = <<>> THEN b
    ELSE JoinWriteRest(b \o s \o Head(rest), Tail(rest), s)

\* a loop over ef in place of ef[1:]: sep is written before every token
JoinLeadingSep(e, s) ==
    IF Len(e) = 0 THEN <<>> ELSE JoinWriteRest(<<>>, e, s)

Join(e, s) ==
    CASE Len(e) = 0 -> <<>>
      [] Len(e) = 1 -> e[1]
      [] OTHER -> JoinWriteRest(e[1], Tail(e), s)

(***************************************************************************)
(* The Employee struct.  An Employee is a function from its attribute      *)
(* names to Go values.                                                     *)
(***************************************************************************)
Nil == {}

Ptr(v) == {v}

PointerAttrs == {"PhotoUploaded", "CanUploadPhoto"}

StringAttrs ==
    {"ID", "DisplayName", "FirstName", "LastName", "PreferredName", "Gender",
     "JobTitle", "WorkPhone", "MobilePhone", "WorkEmail", "Department",
     "Location", "Division", "LinkedIn", "WorkPhoneExtension", "PhotoURL",
     "HireDate"}

Attrs == StringAttrs \cup PointerAttrs

\* the declared type of each attribute
FieldType(k) ==
    CASE k = "PhotoUploaded" -> "*bool"
      [] k = "CanUploadPhoto" -> "*int"
      [] OTHER -> "string"

\* a non-pointer bool and int would start as false and 0
ZeroValueCoerced(k) ==
    CASE FieldType(k) = "*bool" -> Ptr(FALSE)
      [] FieldType(k) = "*int" -> Ptr(0)
      [] OTHER -> <<>>

\* the value a Go variable of that type holds before anything is written
ZeroValue(k) ==
    CASE FieldType(k) = "*bool" -> Nil
      [] FieldType(k) = "*int" -> Nil
      [] OTHER -> <<>>

\* var employee Employee
ZeroEmployee == [k \in Attrs |-> ZeroValue(k)]

\* a []Employee: the nil slice and the empty slice are different values
NilSlice == [isNil |-> TRUE, elems |-> <<>>]

Slice(es) == [isNil |-> FALSE, elems |-> es]

(***************************************************************************)
(* Errors.                                                                 *)
(***************************************************************************)
NoErr == "nil"

RequestErr == "net/url: invalid control character in URL"

TransportErr == "transport error"

DecodeErr == "json: cannot unmarshal"

NotFoundErr == "No employee found"

(***************************************************************************)
(* JSON decoding into an Employee, as the request executor does it          *)
(* (encoding/json): a JSON value is <<"null">>, <<"string", s>>,           *)
(* <<"bool", b>> or <<"number", n>>; a JSON object is a function from keys *)
(* to JSON values.  A value of the wrong type leaves the attribute as it   *)
(* was, the remaining keys are still decoded, and the error is returned.   *)
(***************************************************************************)
JSONNull == <<"null">>

JSONString(str) == <<"string", str>>

JSONBool(b) == <<"bool", b>>

JSONNumber(n) == <<"number", n>>

TypeMatches(k, v) ==
    \/ v[1] = "null"
    \/ FieldType(k) = "string" /\ v[1] = "string"
    \/ FieldType(k) = "*bool" /\ v[1] = "bool"
    \/ FieldType(k) = "*int" /\ v[1] = "number"

DecodeField(k, v, cur) ==
    CASE ~TypeMatches(k, v) -> cur
      [] v[1] = "null" /\ FieldType(k) = "string" -> cur
      [] v[1] = "null" /\ FieldType(k) # "string" -> Nil
      [] v[1] # "null" /\ FieldType(k) = "string" -> v[2]
      [] OTHER -> Ptr(v[2])

DecodeEmployee(obj, d) ==
    [val |-> [k \in Attrs |->
                 IF k \in DOMAIN obj THEN DecodeField(k, obj[k], d[k])
                 ELSE d[k]],
     err |-> IF \E k \in DOMAIN obj \cap Attrs : ~TypeMatches(k, obj[k])
             THEN DecodeErr ELSE NoErr]

(***************************************************************************)
(* URLs and query strings (net/url).                                       *)
(***************************************************************************)
CTL == {"\n"}

HasCTL(str) ==
    \E i \in 1..Len(str) : str[i] \in CTL

Unreserved ==
    {"A", "B", "C", "D", "E", "F", "G", "H", "I", "J", "K", "L", "M",
     "N", "O", "P", "Q", "R", "S", "T", "U", "V", "W", "X", "Y", "Z",
     "a", "b", "c", "d", "e", "f", "g", "h", "i", "j", "k", "l", "m",
     "n", "o", "p", "q", "r", "s", "t", "u", "v", "w", "x", "y", "z",
     "0", "1", "2", "3", "4", "5", "6", "7", "8", "9", "-", "_", ".", "~"}

EscapeChar(c) ==
    CASE c \in Unreserved -> <<c>>
      [] c = " " -> <<"+">>
      [] c = "," -> <<"%", "2", "C">>
      [] c = "+" -> <<"%", "2", "B">>
      [] c = "%" -> <<"%", "2", "5">>
      [] c = "&" -> <<"%", "2", "6">>
      [] c = "/" -> <<"%", "2", "F">>
      [] c = "=" -> <<"%", "3", "D">>
      [] c = "@" -> <<"%", "4", "0">>
      [] c = "\n" -> <<"%", "0", "A">>

\* QueryEscape escapes character by character; the range lo..hi is halved so
\* that the evaluation depth stays logarithmic in the length
RECURSIVE EscapeRange(_, _, _)
EscapeRange(str, lo, hi) ==
    IF lo > hi THEN <<>>
    ELSE IF lo = hi THEN EscapeChar(str[lo])
    ELSE LET mid == (lo + hi) \div 2
         IN  EscapeRange(str, lo, mid) \o EscapeRange(str, mid + 1, hi)

QueryEscape(str) ==
    EscapeRange(str, 1, Len(str))

\* url.Values{"fields": {v}}.Encode()
EncodeFields(v) ==
    <<"f", "i", "e", "l", "d", "s", "=">> \o QueryEscape(v)

\* http.NewRequest("GET", url, nil): url.Parse rejects control characters
NewRequest(url) ==
    IF HasCTL(url)
    THEN [ok |-> FALSE, err |-> RequestErr]
    ELSE [ok |-> TRUE, err |-> NoErr]

(***************************************************************************)
(* Inputs: what the caller passes and what the remote service answers.     *)
(***************************************************************************)
GoodURL == <<"h", "t", "t", "p", ":", "/", "/", "x">>

BadURL == <<"h", "\n">>

BaseURLs == {GoodURL, BadURL}

IDs == {<<>>, <<"7">>, <<"8">>, <<"\n">>}

DirIDs == IDs

Emails == {<<"a", "@", "x">>, <<"A", "@", "x">>}

FieldTokens == {WorkEmail, JobTitle, ReportingTo}

FieldArgs == SeqsUpTo(FieldTokens, MaxFields)

\* one entry of the "Employees" array of a directory response; the last one
\* carries its ID as a JSON number, which does not decode into a string
DirEntryBodies ==
    {[ID |-> JSONString(i), WorkEmail |-> JSONString(e)] :
        i \in DirIDs, e \in Emails}
    \cup {[ID |-> JSONNumber(7), WorkEmail |-> JSONString(<<"a", "@", "x">>)]}

DirBodies == SeqsUpTo(DirEntryBodies, MaxDir)

\* employee responses: empty, well-typed, explicit zero-equivalents, and two
\* with a mistyped value (one after a well-typed key, one alone)
SampleBodies ==
    {<<>>,
     [DisplayName |-> JSONString(<<"A", "l">>)],
     [PhotoUploaded |-> JSONBool(FALSE), CanUploadPhoto |-> JSONNumber(0)],
     [DisplayName |-> JSONString(<<"A", "l">>),
      CanUploadPhoto |-> JSONString(<<"x">>)],
     [PhotoUploaded |-> JSONNumber(1)]}

(***************************************************************************)
(* c.makeRequest(req, &dest): the request executor.  It either fails in    *)
(* transport and leaves the destination alone, or decodes the response     *)
(* body into the destination and returns the decoder's error.              *)
(***************************************************************************)
RECURSIVE DecodeEntries(_)
DecodeEntries(bs) ==
    IF bs = <<>> THEN [val |-> <<>>, err |-> NoErr]
    ELSE LET h == DecodeEmployee(Head(bs), ZeroEmployee)
             t == DecodeEntries(Tail(bs))
         IN  [val |-> <<h.val>> \o t.val,
              err |-> IF h.err # NoErr THEN h.err ELSE t.err]

MakeRequestDirectory ==
    {[val |-> NilSlice, err |-> TransportErr],
     [val |-> NilSlice, err |-> NoErr]}
    \cup {LET r == DecodeEntries(b) IN [val |-> Slice(r.val), err |-> r.err] :
            b \in DirBodies}

MakeRequestEmployee(d) ==
    {[val |-> d, err |-> TransportErr]}
    \cup {DecodeEmployee(b, d) : b \in SampleBodies}

(***************************************************************************)
(* GetEmployeeDirectory                                                    *)
(***************************************************************************)
DirectoryURL ==
    baseURL \o <<"/", "e", "m", "p", "l", "o", "y", "e", "e", "s", "/", "d", "i", "r", "e", "c", "t", "o", "r", "y">>

DirectoryRequest(ctx) ==
    [kind |-> "directory", url |-> DirectoryURL, rawQuery |-> <<>>,
     ctx |-> ctx]

\* a return that drops the error of c.makeRequest
DirectoryResultSwallow(r) ==
    [val |-> r.val, err |-> NoErr]

\* what GetEmployeeDirectory returns once c.makeRequest(req, &er) returned
DirectoryResult(r) ==
    IF r.err # NoErr THEN [val |-> NilSlice, err |-> r.err]
    ELSE [val |-> r.val, err |-> NoErr]

\* the start of GetEmployeeDirectory, up to the call of c.makeRequest
DirectoryBegin(ctx, zero) ==
    LET nr == NewRequest(DirectoryURL)
    IN  /\ newReqErr' = nr.err
        /\ IF nr.ok
           THEN /\ sent' = Append(sent, DirectoryRequest(ctx))
                /\ pc' = "dir"
                /\ ret' = ret
           ELSE /\ sent' = sent
                /\ pc' = "done"
                /\ ret' = [val |-> zero, err |-> nr.err]

(***************************************************************************)
(* GetEmployee                                                             *)
(***************************************************************************)
DefaultFields ==
    <<DisplayName, FirstName, LastName, PreferredName, Gender, JobTitle,
      WorkPhone, MobilePhone, WorkEmail, Department, Location, Division,
      LinkedIn, WorkPhoneExtension, PhotoUploaded, PhotoURL, CanUploadPhoto,
      HireDate>>

\* for _, field := range fields { ef = append(ef, field) }
RECURSIVE AppendAll(_, _)
AppendAll(acc, fs) ==
    IF fs = <<>> THEN acc ELSE AppendAll(Append(acc, Head(fs)), Tail(fs))

\* len(fields) > 1 in place of len(fields) > 0
ChooseFieldsOffByOne(fs) ==
    IF Len(fs) > 1 THEN AppendAll(<<>>, fs) ELSE DefaultFields

\* the field set GetEmployee joins
ChooseFields(fs) ==
    IF Len(fs) > 0 THEN AppendAll(<<>>, fs) ELSE DefaultFields

EmployeeURL(i) ==
    baseURL \o <<"/", "e", "m", "p", "l", "o", "y", "e", "e", "s", "/">> \o i

EmployeeRequest(i, fs) ==
    [kind |-> "employee", url |-> EmployeeURL(i),
     rawQuery |-> EncodeFields(Join(ChooseFields(fs), <<",">>)),
     ctx |-> "ctx"]

\* what GetEmployee returns once c.makeRequest(req, &employee) returned
EmployeeResult(r) ==
    IF r.err # NoErr THEN [val |-> r.val, err |-> r.err]
    ELSE [val |-> r.val, err |-> NoErr]

\* the start of GetEmployee, up to the call of c.makeRequest
EmployeeBegin(i, fs) ==
    LET nr == NewRequest(EmployeeURL(i))
    IN  /\ id' = i
        /\ newReqErr' = nr.err
        /\ IF nr.ok
           THEN /\ sent' = Append(sent, EmployeeRequest(i, fs))
                /\ pc' = "emp"
                /\ ret' = ret
           ELSE /\ sent' = sent
                /\ pc' = "done"
                /\ ret' = [val |-> ZeroEmployee, err |-> nr.err]

(***************************************************************************)
(* The two scans of the directory.                                         *)
(***************************************************************************)
\* a scan that keeps going and returns the ID of the last match
RECURSIVE IDByEmailScanLast(_, _, _)
IDByEmailScanLast(dir, e, i) ==
    IF i > Len(dir) THEN <<>>
    ELSE LET later == IDByEmailScanLast(dir, e, i + 1)
         IN  IF dir[i]["WorkEmail"] = e /\ later = <<>> THEN dir[i]["ID"]
             ELSE later

\* GetEmployeeIDByEmail: return directory[i].ID at the first match, "" after
\* the loop
RECURSIVE IDByEmailScan(_, _, _)
IDByEmailScan(dir, e, i) ==
    IF i > Len(dir) THEN <<>>
    ELSE IF dir[i]["WorkEmail"] = e THEN dir[i]["ID"]
    ELSE IDByEmailScan(dir, e, i + 1)

\* the loop without its break: the last match overwrites id
RECURSIVE ByEmailScanNoBreak(_, _, _, _)
ByEmailScanNoBreak(dir, e, i, cur) ==
    IF i > Len(dir) THEN cur
    ELSE IF dir[i]["WorkEmail"] = e
    THEN ByEmailScanNoBreak(dir, e, i + 1, dir[i]["ID"])
    ELSE ByEmailScanNoBreak(dir, e, i + 1, cur)

\* GetEmployeeByEmail: var id string; id = directory[i].ID; break
RECURSIVE ByEmailScan(_, _, _, _)
ByEmailScan(dir, e, i, cur) ==
    IF i > Len(dir) THEN cur
    ELSE IF dir[i]["WorkEmail"] = e THEN dir[i]["ID"]
    ELSE ByEmailScan(dir, e, i + 1, cur)

\* a check that never reports not-found
ByEmailNotFoundNever(i) ==
    Len(i) < 0

\* if len(id) == 0 { return employee, errors.New("No employee found") }
ByEmailNotFound(i) ==
    Len(i) = 0

\* what GetEmployeeIDByEmail returns given GetEmployeeDirectory's result
IDByEmailResult(d, e) ==
    IF d.err # NoErr THEN [val |-> <<>>, err |-> d.err]
    ELSE [val |-> IDByEmailScan(d.val.elems, e, 1), err |-> NoErr]

(***************************************************************************)
(* The client: one call at a time, split where it blocks in c.makeRequest. *)
(***************************************************************************)
InitDest == [er |-> NilSlice, employee |-> ZeroEmployee]

InitRet == [val |-> <<>>, err |-> NoErr]

ClientIdle ==
    /\ pc = "idle"
    /\ op = "none"
    /\ email = <<>>
    /\ id = <<>>
    /\ fields = <<>>
    /\ sent = <<>>
    /\ outcomes = <<>>
    /\ newReqErr = NoErr
    /\ directory = NilSlice
    /\ dest = InitDest
    /\ delegated = <<>>
    /\ ret = InitRet

JoinOff ==
    /\ ef = <<>>
    /\ sep = <<>>
    /\ joined = <<>>
    /\ jpc = "off"

DecodeOff ==
    /\ body = <<>>
    /\ decoded = [val |-> ZeroEmployee, err |-> NoErr]
    /\ dpc = "off"

Init ==
    /\ baseURL \in BaseURLs
    /\ ClientIdle
    /\ JoinOff
    /\ DecodeOff

GetEmployeeDirectoryCall ==
    /\ pc = "idle"
    /\ op' = "GetEmployeeDirectory"
    /\ DirectoryBegin("ctx", NilSlice)
    /\ UNCHANGED <<baseURL, email, id, fields, outcomes, directory, dest,
                   delegated, joinVars, decodeVars>>

GetEmployeeDirectoryReturn ==
    /\ pc = "dir"
    /\ op = "GetEmployeeDirectory"
    /\ \E r \in MakeRequestDirectory :
          /\ outcomes' = Append(outcomes, r.err)
          /\ dest' = [dest EXCEPT !.er = r.val]
          /\ ret' = DirectoryResult(r)
    /\ pc' = "done"
    /\ UNCHANGED <<baseURL, op, email, id, fields, sent, newReqErr, directory,
                   delegated, joinVars, decodeVars>>

GetEmployeeIDByEmailCall ==
    /\ pc = "idle"
    /\ op' = "GetEmployeeIDByEmail"
    /\ \E e \in Emails : email' = e
    /\ DirectoryBegin("TODO", <<>>)
    /\ UNCHANGED <<baseURL, id, fields, outcomes, directory, dest, delegated,
                   joinVars, decodeVars>>

GetEmployeeIDByEmailReturn ==
    /\ pc = "dir"
    /\ op = "GetEmployeeIDByEmail"
    /\ \E r \in MakeRequestDirectory :
          LET d == DirectoryResult(r)
          IN  /\ outcomes' = Append(outcomes, r.err)
              /\ dest' = [dest EXCEPT !.er = r.val]
              /\ directory' = d.val
              /\ ret' = IDByEmailResult(d, email)
    /\ pc' = "done"
    /\ UNCHANGED <<baseURL, op, email, id, fields, sent, newReqErr, delegated,
                   joinVars, decodeVars>>

GetEmployeeByEmailCall ==
    /\ pc = "idle"
    /\ op' = "GetEmployeeByEmail"
    /\ \E e \in Emails : email' = e
    /\ \E fs \in FieldArgs : fields' = fs
    /\ DirectoryBegin("ctx", ZeroEmployee)
    /\ UNCHANGED <<baseURL, id, outcomes, directory, dest, delegated,
                   joinVars, decodeVars>>

\* GetEmployeeByEmail from the return of GetEmployeeDirectory to its own
\* return or to the call of c.makeRequest inside the delegated GetEmployee
GetEmployeeByEmailLookup ==
    /\ pc = "dir"
    /\ op = "GetEmployeeByEmail"
    /\ \E r \in MakeRequestDirectory :
          LET d == DirectoryResult(r)
              i == ByEmailScan(d.val.elems, email, 1, <<>>)
          IN  /\ outcomes' = Append(outcomes, r.err)
              /\ dest' = [dest EXCEPT !.er = r.val]
              /\ directory' = d.val
              /\ IF d.err # NoErr
                 THEN /\ ret' = [val |-> ZeroEmployee, err |-> d.err]
                      /\ pc' = "done"
                      /\ UNCHANGED <<id, sent, newReqErr, delegated>>
                 ELSE IF ByEmailNotFound(i)
                 THEN /\ ret' = [val |-> ZeroEmployee, err |-> NotFoundErr]
                      /\ pc' = "done"
                      /\ UNCHANGED <<id, sent, newReqErr, delegated>>
                 ELSE /\ delegated' =
                            Append(delegated, [id |-> i, fields |-> fields])
                      /\ EmployeeBegin(i, fields)
    /\ UNCHANGED <<baseURL, op, email, fields, joinVars, decodeVars>>

GetEmployeeCall ==
    /\ pc = "idle"
    /\ op' = "GetEmployee"
    /\ \E i \in IDs, fs \in FieldArgs :
          /\ fields' = fs
          /\ EmployeeBegin(i, fs)
    /\ UNCHANGED <<baseURL, email, outcomes, directory, dest, delegated,
                   joinVars, decodeVars>>

\* the return of GetEmployee, called directly or by GetEmployeeByEmail, which
\* returns its result as it is
GetEmployeeReturn ==
    /\ pc = "emp"
    /\ \E r \in MakeRequestEmployee(ZeroEmployee) :
          /\ outcomes' = Append(outcomes, r.err)
          /\ dest' = [dest EXCEPT !.employee = r.val]
          /\ ret' = EmployeeResult(r)
    /\ pc' = "done"
    /\ UNCHANGED <<baseURL, op, email, id, fields, sent, newReqErr, directory,
                   delegated, joinVars, decodeVars>>

\* the caller has the result; every value of the call is discarded
Finish ==
    /\ pc = "done"
    /\ pc' = "idle"
    /\ op' = "none"
    /\ email' = <<>>
    /\ id' = <<>>
    /\ fields' = <<>>
    /\ sent' = <<>>
    /\ outcomes' = <<>>
    /\ newReqErr' = NoErr
    /\ directory' = NilSlice
    /\ dest' = InitDest
    /\ delegated' = <<>>
    /\ ret' = InitRet
    /\ UNCHANGED <<baseURL, joinVars, decodeVars>>

Next ==
    \/ GetEmployeeDirectoryCall
    \/ GetEmployeeDirectoryReturn
    \/ GetEmployeeIDByEmailCall
    \/ GetEmployeeIDByEmailReturn
    \/ GetEmployeeByEmailCall
    \/ GetEmployeeByEmailLookup
    \/ GetEmployeeCall
    \/ GetEmployeeReturn
    \/ Finish

Spec == Init /\ [][Next]_vars

(***************************************************************************)
(* EmployeeFields.Join as a call of its own.                               *)
(***************************************************************************)
JoinTokens == {<<>>, <<"A">>, <<"B", "C">>}

Seps == {<<>>, <<",">>, <<",", " ">>}

InitJoin ==
    /\ baseURL = GoodURL
    /\ ClientIdle
    /\ DecodeOff
    /\ ef \in SeqsUpTo(JoinTokens, MaxTokens)
    /\ sep \in Seps
    /\ joined = <<>>
    /\ jpc = "call"

JoinCall ==
    /\ jpc = "call"
    /\ joined' = Join(ef, sep)
    /\ jpc' = "ret"
    /\ UNCHANGED <<ef, sep, clientVars, decodeVars>>

NextJoin == JoinCall

SpecJoin == InitJoin /\ [][NextJoin]_vars

(***************************************************************************)
(* Decoding one employee response into a fresh Employee.                   *)
(***************************************************************************)
JSONValues ==
    {JSONNull, JSONString(<<>>), JSONString(<<"x">>), JSONBool(FALSE),
     JSONNumber(0)}

RECURSIVE KeySets(_)
KeySets(n) ==
    IF n = 0 THEN {{}}
    ELSE LET S == KeySets(n - 1)
         IN  S \cup {K \cup {a} : K \in S, a \in Attrs}

Bodies == UNION {[K -> JSONValues] : K \in KeySets(MaxKeys)}

InitDecode ==
    /\ baseURL = GoodURL
    /\ ClientIdle
    /\ JoinOff
    /\ body \in Bodies
    /\ decoded = [val |-> ZeroEmployee, err |-> NoErr]
    /\ dpc = "body"

DecodeCall ==
    /\ dpc = "body"
    /\ decoded' = DecodeEmployee(body, ZeroEmployee)
    /\ dpc' = "decoded"
    /\ UNCHANGED <<body, clientVars, joinVars>>

NextDecode == DecodeCall

SpecDecode == InitDecode /\ [][NextDecode]_vars

(***************************************************************************)
(* Properties of EmployeeFields.Join (checked under SpecJoin).             *)
(***************************************************************************)
\* the summed length of the first k tokens of e
RECURSIVE TokenLenSum(_, _)
TokenLenSum(e, k) ==
    IF k = 0 THEN 0 ELSE Len(e[k]) + TokenLenSum(e, k - 1)

\* where token k starts in a string that puts s between consecutive tokens
TokenStart(e, s, k) ==
    TokenLenSum(e, k - 1) + (k - 1) * Len(s)

\* out is the tokens of e in order with s between each consecutive pair and
\* neither before the first nor after the last
Interleaved(out, e, s) ==
    /\ \A k \in 1..Len(e) :
          SubSeq(out, TokenStart(e, s, k) + 1,
                 TokenStart(e, s, k) + Len(e[k])) = e[k]
    /\ \A k \in 1..(Len(e) - 1) :
          SubSeq(out, TokenStart(e, s, k) + Len(e[k]) + 1,
                 TokenStart(e, s, k + 1)) = s
    /\ Len(e) > 0 => Len(out) = TokenStart(e, s, Len(e)) + Len(e[Len(e)])

JoinShape ==
    /\ Len(ef) = 0 => joined = <<>>
    /\ Len(ef) = 1 => joined = ef[1]
    /\ Len(ef) > 1 => Interleaved(joined, ef, sep)

\* C5 as stated: Join returns "" for no token, the token for one token and
\* otherwise the tokens in order with sep between consecutive tokens, and the
\* length of the result is the summed token lengths plus
\* (number of tokens - 1) times the length of sep, for every field sequence.
C5_JoinLengthAsStated ==
    jpc = "ret" =>
        /\ JoinShape
        /\ Len(joined) =
              TokenLenSum(ef, Len(ef)) + (Len(ef) - 1) * Len(sep)

\* the number of separators Join writes
SepCount(e) ==
    IF Len(e) = 0 THEN 0 ELSE Len(e) - 1

\* C5 amended: the same result, and the length of the result is the summed
\* token lengths plus the number of separators written times the length of
\* sep, where no separator is written for zero tokens and
\* (number of tokens - 1) are written otherwise.
C5_JoinLength ==
    jpc = "ret" =>
        /\ JoinShape
        /\ Len(joined) = TokenLenSum(ef, Len(ef)) + SepCount(ef) * Len(sep)

\* Join has returned for three tokens and a two-character separator
C5_Witness ==
    /\ jpc = "ret"
    /\ Len(ef) = 3
    /\ Len(sep) = 2
    /\ Len(joined) = TokenLenSum(ef, 3) + 4

(***************************************************************************)
(* Properties of the Employee record (checked under SpecDecode).           *)
(***************************************************************************)
\* every attribute but the identifier is optional
OptionalAttrs == Attrs \ {"ID"}

\* the JSON value that carries the zero-equivalent of attribute k
ZeroEquivalent(k) ==
    CASE k = "PhotoUploaded" -> JSONBool(FALSE)
      [] k = "CanUploadPhoto" -> JSONNumber(0)
      [] OTHER -> JSONString(<<>>)

\* the response obj with attribute k carried explicitly as v
WithKey(obj, k, v) ==
    [x \in DOMAIN obj \cup {k} |-> IF x = k THEN v ELSE obj[x]]

\* what attribute k holds after decoding obj with k carried as its
\* zero-equivalent
ExplicitZero(obj, k) ==
    DecodeEmployee(WithKey(obj, k, ZeroEquivalent(k)), ZeroEmployee).val[k]

\* C7 as stated: for every optional attribute, string-valued or not, an
\* Employee decoded from a response without the attribute holds a value that
\* differs from the one decoded from the same response carrying the
\* attribute's zero-equivalent explicitly.
C7_AbsentDiffersForEveryAttribute ==
    dpc = "decoded" =>
        \A k \in OptionalAttrs \ DOMAIN body :
            decoded.val[k] # ExplicitZero(body, k)

\* C7 amended: for PhotoUploaded and CanUploadPhoto an absent attribute is
\* nil and differs from the explicit false / 0, which decode to a pointer to
\* false / 0; for every string-valued attribute an absent attribute is the
\* empty string, the same value the explicit empty string decodes to.
C7_AbsentDiffersForPointers ==
    dpc = "decoded" =>
        /\ \A k \in PointerAttrs \ DOMAIN body :
              /\ decoded.val[k] # ExplicitZero(body, k)
              /\ decoded.val[k] = Nil
        /\ ExplicitZero(body, "PhotoUploaded") = Ptr(FALSE)
        /\ ExplicitZero(body, "CanUploadPhoto") = Ptr(0)
        /\ \A k \in (OptionalAttrs \ PointerAttrs) \ DOMAIN body :
              /\ decoded.val[k] = <<>>
              /\ decoded.val[k] = ExplicitZero(body, k)

\* a response carrying other attributes but neither PhotoUploaded nor
\* CanUploadPhoto has been decoded
C7_Witness ==
    /\ dpc = "decoded"
    /\ DOMAIN body # {}
    /\ DOMAIN body \cap PointerAttrs = {}
    /\ decoded.err = NoErr
    /\ decoded.val["PhotoUploaded"] = Nil
    /\ decoded.val["CanUploadPhoto"] = Nil

(***************************************************************************)
(* Properties of the client (checked under Spec).                          *)
(***************************************************************************)
\* the directory request of a lookup has completed without error
DirectorySucceeded ==
    /\ Len(outcomes) >= 1
    /\ outcomes[1] = NoErr

Matches(dir, e) ==
    {i \in 1..Len(dir) : dir[i]["WorkEmail"] = e}

\* the ID of the lowest-index entry whose WorkEmail equals e
FirstMatchID(dir, e) ==
    LET i == CHOOSE j \in Matches(dir, e) : \A k \in Matches(dir, e) : j <= k
    IN  dir[i]["ID"]

\* the result GetEmployee gives for the request it made, or failed to make
GetEmployeeOutcome ==
    IF newReqErr # NoErr THEN [val |-> ZeroEmployee, err |-> newReqErr]
    ELSE [val |-> dest.employee, err |-> outcomes[Len(outcomes)]]

\* C1: in GetEmployeeByEmail, once the directory request has succeeded and
\* some entry has WorkEmail = email, GetEmployee has been called exactly once,
\* with the ID of the first such entry and the caller's fields, the result is
\* that call's result, and the not-found error is not returned.
C1_DelegatesToFirstMatch ==
    (/\ op = "GetEmployeeByEmail"
     /\ DirectorySucceeded
     /\ Matches(directory.elems, email) # {}) =>
        /\ delegated =
              <<[id |-> FirstMatchID(directory.elems, email),
                 fields |-> fields]>>
        /\ pc = "done" =>
              /\ ret.err # NotFoundErr
              /\ ret = GetEmployeeOutcome

\* C2: GetEmployeeByEmail whose directory request succeeded with no entry
\* matching email has returned the not-found error and the zero Employee, and
\* has made no call to GetEmployee and no employee request.
C2_NotFoundWithoutMatch ==
    (/\ op = "GetEmployeeByEmail"
     /\ DirectorySucceeded
     /\ Matches(directory.elems, email) = {}) =>
        /\ pc = "done"
        /\ ret = [val |-> ZeroEmployee, err |-> NotFoundErr]
        /\ delegated = <<>>
        /\ Len(sent) = 1
        /\ sent[1].kind = "directory"

\* a non-empty directory without a match has been answered with not-found
C2_Witness ==
    /\ op = "GetEmployeeByEmail"
    /\ pc = "done"
    /\ DirectorySucceeded
    /\ Len(directory.elems) = 2
    /\ Matches(directory.elems, email) = {}
    /\ ret.err = NotFoundErr

\* C3: GetEmployeeIDByEmail whose directory request succeeded returns a nil
\* error and the ID of the lowest-index entry whose WorkEmail equals email,
\* or the empty string when no entry matches.
C3_FirstMatchingID ==
    (/\ op = "GetEmployeeIDByEmail"
     /\ pc = "done"
     /\ DirectorySucceeded) =>
        /\ ret.err = NoErr
        /\ ret.val = IF Matches(directory.elems, email) = {} THEN <<>>
                     ELSE FirstMatchID(directory.elems, email)

\* both entries of the directory match, with different IDs, and the ID of
\* the first one has been returned
C3_Witness ==
    /\ op = "GetEmployeeIDByEmail"
    /\ pc = "done"
    /\ DirectorySucceeded
    /\ Matches(directory.elems, email) = {1, 2}
    /\ directory.elems[1]["ID"] # directory.elems[2]["ID"]
    /\ directory.elems[1]["ID"] # <<>>
    /\ ret.val = directory.elems[1]["ID"]

(***************************************************************************)
(* Reading a query string back, as the receiving side does                 *)
(* (url.ParseQuery): split at "&", split each pair at its first "=",       *)
(* unescape key and value.                                                 *)
(***************************************************************************)
Positions(str, c) ==
    {i \in 1..Len(str) : str[i] = c}

\* the k-th smallest element of the set of positions P
Nth(P, k) ==
    CHOOSE p \in P : Cardinality({q \in P : q < p}) = k - 1

\* the pieces of str between the occurrences of c
SplitOn(str, c) ==
    LET P == Positions(str, c)
        n == Cardinality(P)
        from(k) == IF k = 1 THEN 1 ELSE Nth(P, k - 1) + 1
        to(k) == IF k = n + 1 THEN Len(str) ELSE Nth(P, k) - 1
    IN  [k \in 1..(n + 1) |-> SubSeq(str, from(k), to(k))]

Unhex(a, b) ==
    CASE a = "2" /\ b = "C" -> ","
      [] a = "2" /\ b = "B" -> "+"
      [] a = "2" /\ b = "5" -> "%"
      [] a = "2" /\ b = "6" -> "&"
      [] a = "2" /\ b = "F" -> "/"
      [] a = "3" /\ b = "D" -> "="
      [] a = "4" /\ b = "0" -> "@"
      [] a = "0" /\ b = "A" -> "\n"

\* the character the position i of an escaped string stands for; the two
\* hexadecimal digits after a "%" stand for nothing of their own
UnescapeAt(str, i) ==
    CASE str[i] = "%" -> <<Unhex(str[i + 1], str[i + 2])>>
      [] i > 1 /\ str[i - 1] = "%" -> <<>>
      [] i > 2 /\ str[i - 2] = "%" -> <<>>
      [] str[i] = "+" -> <<" ">>
      [] OTHER -> <<str[i]>>

RECURSIVE UnescapeRange(_, _, _)
UnescapeRange(str, lo, hi) ==
    IF lo > hi THEN <<>>
    ELSE IF lo = hi THEN UnescapeAt(str, lo)
    ELSE LET mid == (lo + hi) \div 2
         IN  UnescapeRange(str, lo, mid) \o UnescapeRange(str, mid + 1, hi)

QueryUnescape(str) ==
    UnescapeRange(str, 1, Len(str))

\* the values of the query parameter named key, in order
QueryValues(rawQuery, key) ==
    LET pairs == SplitOn(rawQuery, "&")
        k(i) == QueryUnescape(SplitOn(pairs[i], "=")[1])
        v(i) == QueryUnescape(SubSeq(pairs[i],
                                     Len(SplitOn(pairs[i], "=")[1]) + 2,
                                     Len(pairs[i])))
        hits == {i \in 1..Len(pairs) :
                    /\ Positions(pairs[i], "=") # {}
                    /\ k(i) = key}
    IN  [j \in 1..Cardinality(hits) |-> v(Nth(hits, j))]

FieldsKey == <<"f", "i", "e", "l", "d", "s">>

\* the 18 default tokens joined by commas, written out
DefaultFieldsParam ==
    <<"D", "i", "s", "p", "l", "a", "y", "N", "a", "m", "e", ",", "F",
      "i", "r", "s", "t", "N", "a", "m", "e", ",", "L", "a", "s", "t",
      "N", "a", "m", "e", ",", "P", "r", "e", "f", "e", "r", "r", "e",
      "d", "N", "a", "m", "e", ",", "G", "e", "n", "d", "e", "r", ",",
      "J", "o", "b", "T", "i", "t", "l", "e", ",", "W", "o", "r", "k",
      "P", "h", "o", "n", "e", ",", "M", "o", "b", "i", "l", "e", "P",
      "h", "o", "n", "e", ",", "W", "o", "r", "k", "E", "m", "a", "i",
      "l", ",", "D", "e", "p", "a", "r", "t", "m", "e", "n", "t", ",",
      "L", "o", "c", "a", "t", "i", "o", "n", ",", "D", "i", "v", "i",
      "s", "i", "o", "n", ",", "L", "i", "n", "k", "e", "d", "I", "n",
      ",", "W", "o", "r", "k", "P", "h", "o", "n", "e", "E", "x", "t",
      "e", "n", "s", "i", "o", "n", ",", "P", "h", "o", "t", "o", "U",
      "p", "l", "o", "a", "d", "e", "d", ",", "P", "h", "o", "t", "o",
      "U", "R", "L", ",", "C", "a", "n", "U", "p", "l", "o", "a", "d",
      "P", "h", "o", "t", "o", ",", "H", "i", "r", "e", "D", "a", "t",
      "e">>

\* C4: every employee request carries exactly one fields parameter; its value
\* is the 18 default tokens joined by commas, without ReportingTo, when the
\* caller passed no fields, and otherwise splits at the commas into exactly
\* the caller's fields in the caller's order.
C4_FieldsParameter ==
    \A n \in 1..Len(sent) :
        sent[n].kind = "employee" =>
            LET vs == QueryValues(sent[n].rawQuery, FieldsKey)
            IN  /\ Len(vs) = 1
                /\ IF fields = <<>>
                   THEN /\ vs[1] = DefaultFieldsParam
                        /\ Len(SplitOn(vs[1], ",")) = 18
                        /\ \A k \in 1..18 : SplitOn(vs[1], ",")[k] # ReportingTo
                   ELSE SplitOn(vs[1], ",") = fields

\* GetEmployee has sent a request for two different caller fields, one of
\* which needs escaping
C4_Witness ==
    /\ op = "GetEmployee"
    /\ pc = "emp"
    /\ Len(fields) = 2
    /\ fields[1] = ReportingTo
    /\ fields[2] = WorkEmail
    /\ Len(sent) = 1

\* the value an operation returns when it has nothing to return
NoData ==
    CASE op = "GetEmployeeDirectory" -> NilSlice
      [] op = "GetEmployeeIDByEmail" -> <<>>
      [] OTHER -> ZeroEmployee

\* C6: an operation that returns a non-nil error returns no data with it: the
\* nil slice, the empty identifier, or an Employee with every attribute
\* unset, whatever the request executor wrote into the destination.
C6_NoPartialResult ==
    (pc = "done" /\ ret.err # NoErr) => ret.val = NoData

\* C8: when a call has returned, every error that http.NewRequest or
\* c.makeRequest returned during the call is the error of the call.
C8_ErrorsPropagate ==
    pc = "done" =>
        /\ newReqErr # NoErr => ret.err = newReqErr
        /\ \A n \in 1..Len(outcomes) :
              outcomes[n] # NoErr => ret.err = outcomes[n]

\* GetEmployeeByEmail has returned the transport error of its employee
\* request, made after a successful directory request
C8_Witness ==
    /\ op = "GetEmployeeByEmail"
    /\ pc = "done"
    /\ outcomes = <<NoErr, TransportErr>>
    /\ ret.err = TransportErr

\* the kinds of the requests handed to c.makeRequest, in order
SentKinds ==
    [n \in 1..Len(sent) |-> sent[n].kind]

\* the requests a returned call has made, as C9 counts them
ExpectedKinds ==
    CASE op = "GetEmployeeDirectory" \/ op = "GetEmployeeIDByEmail" ->
            IF newReqErr # NoErr THEN <<>> ELSE <<"directory">>
      [] op = "GetEmployee" ->
            IF newReqErr # NoErr THEN <<>> ELSE <<"employee">>
      [] op = "GetEmployeeByEmail" ->
            IF outcomes = <<>> THEN <<>>
            ELSE IF outcomes[1] # NoErr
                    \/ Matches(directory.elems, email) = {}
            THEN <<"directory">>
            ELSE IF newReqErr # NoErr THEN <<"directory">>
            ELSE <<"directory", "employee">>

\* C9: a returned call has handed to c.makeRequest one request (none when
\* its construction failed); GetEmployeeByEmail has handed over the directory
\* request alone when that request failed or no entry matched, and the
\* directory request followed by the employee request when an entry matched;
\* an employee request of GetEmployeeByEmail is never sent before the
\* directory request has succeeded.
C9_RequestCountAndOrder ==
    /\ pc = "done" => SentKinds = ExpectedKinds
    /\ (op = "GetEmployeeByEmail" /\ Len(sent) = 2) =>
          /\ SentKinds = <<"directory", "employee">>
          /\ DirectorySucceeded
          /\ Matches(directory.elems, email) # {}

\* C10: on a successfully fetched directory GetEmployeeByEmail returns the
\* not-found error exactly when GetEmployeeIDByEmail returns the empty
\* identifier for that directory and email, and otherwise calls GetEmployee
\* with the identifier GetEmployeeIDByEmail returns.
C10_LookupsAgree ==
    (op = "GetEmployeeByEmail" /\ DirectorySucceeded) =>
        LET r == IDByEmailResult([val |-> directory, err |-> NoErr], email)
        IN  /\ r.err = NoErr
            /\ (pc = "done" /\ ret.err = NotFoundErr /\ delegated = <<>>)
                  <=> r.val = <<>>
            /\ r.val # <<>> => delegated = <<[id |-> r.val, fields |-> fields]>>

\* the first matching entry has an empty ID, a later one has not, and
\* GetEmployeeByEmail has returned not-found
C10_Witness ==
    /\ op = "GetEmployeeByEmail"
    /\ pc = "done"
    /\ DirectorySucceeded
    /\ Matches(directory.elems, email) = {1, 2}
    /\ directory.elems[1]["ID"] = <<>>
    /\ directory.elems[2]["ID"] # <<>>
    /\ ret.err = NotFoundErr

====
